---- MODULE Spec2Model ----
(***************************************************************************)
(* The scenario-execution and scoring engine of testsuites/suite.py:       *)
(* Run.run, Test (add, __pretest, __print_verdict, __invoke, warm),        *)
(* Result (add, export_report) and Tester (add, warm, run).                *)
(*                                                                         *)
(* Python strings that the code scans (stdout, stderr) are sequences of    *)
(* one-character strings; messages are TLA+ strings.  An Optional value is *)
(* a sequence of length at most one (<<>> is None).                        *)
(***************************************************************************)
EXTENDS Integers, Sequences, FiniteSets, TLC

VARIABLES
    exe,      \* the executable under test (executable_path), an input of the program
    lists,    \* the heap of Python list objects holding steps: list id -> sequence
    tester,   \* Tester.__tests: the registered Test objects, in registration order
    pc,       \* where the driver is: "idle", "warm", "run", "raised"
    ti,       \* index of the Test the running loop of Tester.warm / Tester.run is at
    si,       \* index of the step the loop of Test.warm / Test.__invoke is at
    cur,      \* the Result object Tester.run is filling
    results,  \* the Result objects returned by the completed calls of Tester.run
    trace,    \* what Test.__invoke did in the scenario it ran last, step by step
    warmed,   \* whether a call of Tester.warm has completed
    exc,      \* the exception that left the program (<<>> while there is none)
    report,   \* what Result.export_report produced (<<>> before any export)
    env,      \* the process environment and command line read by main.py
    weights,  \* the local variable coefficients of __main (<<>> while unset)
    status,   \* the exit status of the process (<<>> while it is running)
    children, \* the child processes spawned so far, each with its present state
    args,     \* the arguments of the function call under study
    ret       \* what that call returned (<<>> before it returns)

engineVars == <<exe, lists, tester, pc, ti, si, cur, results, trace, warmed, exc, report>>

mainVars == <<env, weights, status>>

callVars == <<children, args, ret>>

vars == <<engineVars, mainVars, callVars>>

(***************************************************************************)
(* Bounds of the model.                                                    *)
(***************************************************************************)
MaxTests == 2        \* Test objects registered with the Tester
MaxSteps == 2        \* steps appended over all the lists of the heap
MaxRuns == 2         \* calls of Tester.run
MaxReportTests == 3  \* scenarios of a Result handed to export_report
MaxChildren == 3     \* child processes spawned by successive calls of Run.run
MaxStdout == 4       \* characters of a stdout handed to the a+b Checker

None == <<>>
Some(x) == <<x>>

Last(s) == s[Len(s)]

(***************************************************************************)
(* Text.                                                                   *)
(***************************************************************************)
NL == "\n"
CR == "\r"

\* str.splitlines(): lines end at \n, \r or \r\n; no empty last line.
RECURSIVE SplitFrom(_, _, _)
SplitFrom(s, i, line) ==
    IF i > Len(s) THEN (IF line = <<>> THEN <<>> ELSE <<line>>)
    ELSE IF s[i] = NL THEN <<line>> \o SplitFrom(s, i + 1, <<>>)
    ELSE IF s[i] = CR
         THEN IF i < Len(s) /\ s[i + 1] = NL
              THEN <<line>> \o SplitFrom(s, i + 2, <<>>)
              ELSE <<line>> \o SplitFrom(s, i + 1, <<>>)
    ELSE SplitFrom(s, i + 1, Append(line, s[i]))

splitlines(s) == SplitFrom(s, 1, <<>>)

(***************************************************************************)
(* VerdictErrno and Verdict.                                               *)
(***************************************************************************)
ERROR_SUCCESS == "success"
ERROR_RETURNCODE == "program returns wrong returncode"
ERROR_ASSERTION == "assertion"
ERROR_TIMEOUT == "timeout expired"
ERROR_STDERR_EMPTY == "standard error output is empty"
ERROR_STDERR_IS_NOT_EMPTY == "standard error output is not empty"
ERROR_TYPE_ERROR == "type error"
ERROR_INVALID_FORMAT == "invalid format"

VerdictErrno ==
    { ERROR_SUCCESS, ERROR_RETURNCODE, ERROR_ASSERTION, ERROR_TIMEOUT,
      ERROR_STDERR_EMPTY, ERROR_STDERR_IS_NOT_EMPTY, ERROR_TYPE_ERROR,
      ERROR_INVALID_FORMAT }

\* Verdict.__init__ with extended_what given as a list of lines.
Verdict(verdict_errno, what, extended_what, extended_what_is_hint) ==
    [ errno |-> verdict_errno,
      what |-> what,
      extended_what |-> extended_what,
      hint |-> extended_what_is_hint ]

\* Verdict.__init__ with extended_what given as one string: it is split.
VerdictOfText(verdict_errno, what, text, extended_what_is_hint) ==
    Verdict(verdict_errno, what, splitlines(text), extended_what_is_hint)

is_success(v) == v.errno = ERROR_SUCCESS

is_failed(v) == ~is_success(v)

ok == Verdict(ERROR_SUCCESS, None, <<>>, FALSE)

(***************************************************************************)
(* Decimal text of an integer, as an f-string renders it.                  *)
(***************************************************************************)
DigitStr(d) ==
    CASE d = 0 -> "0" [] d = 1 -> "1" [] d = 2 -> "2" [] d = 3 -> "3"
      [] d = 4 -> "4" [] d = 5 -> "5" [] d = 6 -> "6" [] d = 7 -> "7"
      [] d = 8 -> "8" [] d = 9 -> "9"

RECURSIVE NatChars(_)
NatChars(n) ==
    IF n < 10 THEN <<DigitStr(n)>> ELSE Append(NatChars(n \div 10), DigitStr(n % 10))

\* str(n) as a sequence of characters.
IntChars(n) == IF n < 0 THEN <<"-">> \o NatChars(0 - n) ELSE NatChars(n)

\* The TLA+ string of a sequence of characters.
RECURSIVE Text(_)
Text(chars) == IF chars = <<>> THEN "" ELSE chars[1] \o Text(Tail(chars))

IntStr(n) == Text(IntChars(n))

(***************************************************************************)
(* ReturnCodePolicy, Run (the invocation spec) and Runned (the outcome).   *)
(***************************************************************************)
MatchIfPresented == "MatchIfPresented"
ShouldBeZero == "ShouldBeZero"
ShouldNotBeZero == "ShouldNotBeZero"

ReturnCodePolicy == { MatchIfPresented, ShouldBeZero, ShouldNotBeZero }

\* Run.__init__: t_returncode defaults to None, t_stderr_empty to True.
Run(c_stdin, t_returncode_policy, t_returncode, t_stderr_empty) ==
    [ c_stdin |-> c_stdin,
      policy |-> t_returncode_policy,
      t_returncode |-> t_returncode,
      t_stderr_empty |-> t_stderr_empty ]

expected_returncode_presented(run) == run.t_returncode # None

get_expected_returncode(run) == run.t_returncode[1]

Runned(c_returncode, c_stdout, c_stderr) ==
    [ returncode |-> c_returncode, stdout |-> c_stdout, stderr |-> c_stderr ]

(***************************************************************************)
(* What a launch of the child does, and what Run.run gives its caller:     *)
(* a Runned, None when communicate() timed out (the child is killed), or   *)
(* the exception of subprocess.Popen, which Run.run does not catch.        *)
(***************************************************************************)
Completed(rc, out, err) ==
    [ kind |-> "runned", runned |-> Runned(rc, out, err) ]

TimedOut == [ kind |-> "timeout", runned |-> Runned(0, <<>>, <<>>) ]

LaunchFailed == [ kind |-> "oserror", runned |-> Runned(0, <<>>, <<>>) ]

\* Run.run(executable_path, timeout_factor): the outcomes the executable allows.
RunRun(run, executable) ==
    IF ~executable.launches THEN { LaunchFailed }
    ELSE IF executable.deterministic THEN { executable.out[run.c_stdin] }
    ELSE executable.any

\* Test.__pretest, had it compared a supplied expected code under every policy.
PretestAlwaysMatches(run, runned) ==
    LET actual_returncode == runned.returncode
        wrong == Verdict(ERROR_RETURNCODE, Some("wrong returncode"), <<>>, FALSE)
    IN  IF run.t_stderr_empty /\ runned.stderr # <<>>
        THEN VerdictOfText(ERROR_STDERR_IS_NOT_EMPTY,
                           Some("below is what was in the stderr"), runned.stderr, FALSE)
        ELSE IF ~run.t_stderr_empty /\ runned.stderr = <<>>
        THEN Verdict(ERROR_STDERR_EMPTY, None, <<>>, FALSE)
        ELSE IF expected_returncode_presented(run)
        THEN IF actual_returncode # get_expected_returncode(run) THEN wrong ELSE ok
        ELSE IF run.policy = ShouldBeZero /\ actual_returncode # 0 THEN wrong
        ELSE IF run.policy = ShouldNotBeZero /\ actual_returncode = 0 THEN wrong
        ELSE ok

(***************************************************************************)
(* Test.__pretest: the uniform precondition check.                         *)
(***************************************************************************)
\* A bug: the exit-code policy is checked before stderr.
PretestReturncodeFirst(run, runned) ==
    LET actual_returncode == runned.returncode
        wrong == Verdict(ERROR_RETURNCODE, None, <<>>, FALSE)
    IN  IF run.policy = ShouldBeZero /\ actual_returncode # 0 THEN wrong
        ELSE IF run.policy = ShouldNotBeZero /\ actual_returncode = 0 THEN wrong
        ELSE IF /\ run.policy = MatchIfPresented
                /\ expected_returncode_presented(run)
                /\ actual_returncode # get_expected_returncode(run)
        THEN wrong
        ELSE IF run.t_stderr_empty /\ runned.stderr # <<>>
        THEN VerdictOfText(ERROR_STDERR_IS_NOT_EMPTY,
                           Some("below is what was in the stderr"), runned.stderr, FALSE)
        ELSE IF ~run.t_stderr_empty /\ runned.stderr = <<>>
        THEN Verdict(ERROR_STDERR_EMPTY, None, <<>>, FALSE)
        ELSE ok

Pretest(run, runned) ==
    LET stderr_should_be_empty == run.t_stderr_empty
        c_stderr == runned.stderr
        is_empty_stderr == (c_stderr = <<>>)
        actual_returncode == runned.returncode
    IN  IF stderr_should_be_empty /\ ~is_empty_stderr
        THEN VerdictOfText(ERROR_STDERR_IS_NOT_EMPTY,
                           Some("below is what was in the stderr"), c_stderr, FALSE)
        ELSE IF ~stderr_should_be_empty /\ is_empty_stderr
        THEN Verdict(ERROR_STDERR_EMPTY, None, <<>>, FALSE)
        ELSE IF run.policy = ShouldBeZero
        THEN IF actual_returncode # 0
             THEN Verdict(ERROR_RETURNCODE,
                          Some("expected 0, but actual is " \o IntStr(actual_returncode)),
                          <<>>, FALSE)
             ELSE ok
        ELSE IF run.policy = ShouldNotBeZero
        THEN IF actual_returncode = 0
             THEN Verdict(ERROR_RETURNCODE,
                          Some("expected non-zero returncode, but actual is "
                               \o IntStr(actual_returncode)),
                          <<>>, FALSE)
             ELSE ok
        ELSE IF run.policy = MatchIfPresented /\ expected_returncode_presented(run)
        THEN IF actual_returncode # get_expected_returncode(run)
             THEN Verdict(ERROR_RETURNCODE,
                          Some("expected " \o IntStr(get_expected_returncode(run))
                               \o ", but actual is " \o IntStr(actual_returncode)),
                          <<>>, FALSE)
             ELSE ok
        ELSE ok

\* Test.__print_verdict: TRUE when it returns, FALSE when its assertion fails.
PrintVerdict(verdict) ==
    verdict.hint => Len(verdict.extended_what) = 1

(***************************************************************************)
(* escape, and the text predicates the a+b Checker of intro.py uses.       *)
(***************************************************************************)
TAB == "\t"

RECURSIVE escape(_)
escape(s) ==
    IF s = <<>> THEN ""
    ELSE (IF s[1] = NL THEN "\\n"
          ELSE IF s[1] = CR THEN "\\r"
          ELSE IF s[1] = TAB THEN "\\t"
          ELSE s[1]) \o escape(Tail(s))

endswith_newline(s) == Len(s) > 0 /\ s[Len(s)] = NL

\* The characters str.lstrip() and str.rstrip() remove.
Whitespace == { " ", TAB, NL, CR }

\* The whitespace check, had it compared the line with line.lstrip() only.
HasLeadingSpace(line) == Len(line) > 0 /\ line[1] \in Whitespace

\* line != line.lstrip() or line != line.rstrip()
HasOuterSpace(line) ==
    Len(line) > 0 /\ (line[1] \in Whitespace \/ line[Len(line)] \in Whitespace)

Digits == { "0", "1", "2", "3", "4", "5", "6", "7", "8", "9" }

DigitVal(c) ==
    CASE c = "0" -> 0 [] c = "1" -> 1 [] c = "2" -> 2 [] c = "3" -> 3
      [] c = "4" -> 4 [] c = "5" -> 5 [] c = "6" -> 6 [] c = "7" -> 7
      [] c = "8" -> 8 [] c = "9" -> 9

\* The digits of an int() literal: digits, single underscores only between them.
IsDigitGroup(d) ==
    /\ Len(d) > 0
    /\ d[1] \in Digits
    /\ d[Len(d)] \in Digits
    /\ \A i \in 1..Len(d) : d[i] \in Digits \cup { "_" }
    /\ \A i \in 1..(Len(d) - 1) : ~(d[i] = "_" /\ d[i + 1] = "_")

Unsigned(line) ==
    IF Len(line) > 0 /\ line[1] \in { "+", "-" } THEN Tail(line) ELSE line

\* Whether int(line) returns (it raises ValueError otherwise); line has no outer space.
IsIntLiteral(line) == IsDigitGroup(Unsigned(line))

RECURSIVE DigitsValue(_, _)
DigitsValue(d, acc) ==
    IF d = <<>> THEN acc
    ELSE IF d[1] = "_" THEN DigitsValue(Tail(d), acc)
    ELSE DigitsValue(Tail(d), acc * 10 + DigitVal(d[1]))

IntOf(line) ==
    IF Len(line) > 0 /\ line[1] = "-"
    THEN 0 - DigitsValue(Unsigned(line), 0)
    ELSE DigitsValue(Unsigned(line), 0)

(***************************************************************************)
(* Checkers (Expected.test).  The result of a call is a Verdict, or an     *)
(* exception leaving test.                                                 *)
(***************************************************************************)
Returned(verdict) == [ raised |-> FALSE, verdict |-> verdict ]

Raised == [ raised |-> TRUE, verdict |-> ok ]

\* __Intro.get_tester.__Expected.test
IntroTest(a, b, runned) ==
    LET output == runned.stdout
        lines == splitlines(output)
        line == lines[1]
        expected == a + b
        type_error ==
            Verdict(ERROR_TYPE_ERROR,
                    Some("can't convert \"" \o escape(output) \o "\" to integer"),
                    <<>>, FALSE)
    IN  IF ~endswith_newline(output)
        THEN Verdict(ERROR_INVALID_FORMAT, Some("newline at stdout's end expected"),
                     <<>>, FALSE)
        ELSE IF Len(lines) # 1
        THEN Verdict(ERROR_INVALID_FORMAT, Some("single line expected"), <<>>, FALSE)
        ELSE IF HasOuterSpace(line)
        THEN Verdict(ERROR_INVALID_FORMAT,
                     Some("found unexpected space characters in stdout"), <<>>, FALSE)
        ELSE IF ~IsIntLiteral(line)
        THEN type_error
        ELSE IF IntOf(line) # expected
        THEN VerdictOfText(ERROR_ASSERTION,
                           Some(IntStr(a) \o " + " \o IntStr(b) \o " = " \o IntStr(expected)
                                \o ", (actual: " \o IntStr(IntOf(line)) \o ")"),
                           <<"c", "h", "e", "c", "k", " ", "m", "a", "t", "h">>, TRUE)
        ELSE ok

IntroChecker(a, b) == [ kind |-> "intro", a |-> a, b |-> b ]

\* A Checker of some other suite: the contract lets it return any Verdict, and
\* nothing in Expected keeps its test from raising.
AnyChecker == [ kind |-> "any", a |-> 0, b |-> 0 ]

OneLine == <<"x">>

CheckerVerdicts ==
    { Verdict(e, None, l, h) :
        e \in { ERROR_SUCCESS, ERROR_ASSERTION, ERROR_TYPE_ERROR },
        l \in { <<>>, <<OneLine>>, <<OneLine, OneLine>> },
        h \in BOOLEAN }

\* expected.test(run, runned): the results the Checker allows.
ExpectedTest(expected, run, runned) ==
    IF expected.kind = "intro"
    THEN { Returned(IntroTest(expected.a, expected.b, runned)) }
    ELSE { Returned(v) : v \in CheckerVerdicts } \cup { Raised }

(***************************************************************************)
(* Test: a scenario.  Its step sequence is a reference to a list object,   *)
(* and Test.__init__ evaluates its default `sequence = []` once: every     *)
(* Test built without a sequence refers to that one list, DefaultList.     *)
(***************************************************************************)
DefaultList == 0

SingleTest(run, expected) == [ run |-> run, expected |-> expected ]

\* Test.__init__
Test(categories, sequence) == [ categories |-> categories, sequence |-> sequence ]

\* Test.runs
Runs(test) == lists[test.sequence]

\* Test.add / Test.add_single_test: the list object the Test refers to grows.
AddSingleTest(heap, test, single_test) ==
    [ heap EXCEPT ![test.sequence] = Append(@, single_test) ]

RECURSIVE StepCount(_, _)
StepCount(heap, ids) ==
    IF ids = {} THEN 0
    ELSE LET id == CHOOSE x \in ids : TRUE
         IN  Len(heap[id]) + StepCount(heap, ids \ { id })

TotalSteps == StepCount(lists, DOMAIN lists)

(***************************************************************************)
(* Result.                                                                 *)
(***************************************************************************)
\* Result.__init__: the tests are the Tester's own list, read through `tester`.
NewResult == [ verdicts |-> <<>>, passed |-> 0, warmed |-> 0 ]

\* Result.add, had it put the verdict in front of the earlier ones.
ResultAddInFront(result, verdict) ==
    [ result EXCEPT !.passed = IF is_success(verdict) THEN @ + 1 ELSE @,
                    !.verdicts = Append(<<>>, verdict) \o @ ]

\* Result.add
ResultAdd(result, verdict) ==
    [ result EXCEPT !.passed = IF is_success(verdict) THEN @ + 1 ELSE @,
                    !.verdicts = Append(@, verdict) ]

\* Result.n
N(result) == Len(result.verdicts)

\* Result.exitcode
ExitCode(result) == IF N(result) = result.passed THEN 0 ELSE 1

(***************************************************************************)
(* One iteration of the loop of Test.__invoke on step `single_test`, given *)
(* what the launch gave (`out`) and what the Checker would answer (`chk`). *)
(* then = "next": the loop goes on; "return": __invoke returns `verdict`;  *)
(* "raise": `exception` leaves __invoke.  pre and chk record whether       *)
(* __pretest and expected.test were called and what they gave.             *)
(***************************************************************************)
Outcome(then, verdict, exception, pre, chk) ==
    [ then |-> then, verdict |-> verdict, exception |-> exception,
      pre |-> pre, chk |-> chk ]

\* self.__print_verdict(i, verdict, log); return verdict
FailWith(verdict, pre, chk) ==
    IF PrintVerdict(verdict)
    THEN Outcome("return", verdict, "", pre, chk)
    ELSE Outcome("raise", verdict, "AssertionError", pre, chk)

TimeoutVerdict ==
    Verdict(ERROR_TIMEOUT, Some("executed in more than the deadline"), <<>>, FALSE)

\* A bug: a timed-out launch is not told from a completed one.
IsNoneNever(out) == FALSE

\* `runned is None`
IsNone(out) == out.kind = "timeout"

\* A bug: the loop goes on after a failed Checker.
CheckerStepKeepsGoing(verdict, chk) ==
    IF chk.raised
    THEN Outcome("raise", ok, "CheckerError", Some(verdict), Some(chk))
    ELSE Outcome("next", ok, "", Some(verdict), Some(chk))

\* A bug: a failed Checker is reported with a verdict of __invoke's own.
CheckerStepOwnVerdict(verdict, chk) ==
    IF chk.raised
    THEN Outcome("raise", ok, "CheckerError", Some(verdict), Some(chk))
    ELSE IF is_failed(chk.verdict)
    THEN FailWith(Verdict(ERROR_ASSERTION, None, <<>>, FALSE), Some(verdict), Some(chk))
    ELSE Outcome("next", ok, "", Some(verdict), Some(chk))

\* `verdict = expected.test(run, runned)` and the check of it; an exception of
\* test is not caught.
CheckerStep(verdict, chk) ==
    IF chk.raised
    THEN Outcome("raise", ok, "CheckerError", Some(verdict), Some(chk))
    ELSE IF is_failed(chk.verdict)
    THEN FailWith(chk.verdict, Some(verdict), Some(chk))
    ELSE Outcome("next", ok, "", Some(verdict), Some(chk))

InvokeIteration(single_test, out, chk) ==
    LET run == single_test.run
        expected == single_test.expected
        verdict == Pretest(run, out.runned)
    IN  IF out.kind = "oserror"
        THEN Outcome("raise", ok, "OSError", None, None)
        ELSE IF IsNone(out)
        THEN FailWith(TimeoutVerdict, None, None)
        ELSE IF is_failed(verdict)
        THEN FailWith(verdict, Some(verdict), None)
        ELSE IF expected # None
        THEN CheckerStep(verdict, chk)
        ELSE Outcome("next", ok, "", Some(verdict), None)

\* The answers of the step's Checker to `out`; one placeholder when the loop
\* cannot reach the call.
CheckerAnswers(single_test, out) ==
    IF /\ out.kind = "runned"
       /\ single_test.expected # None
       /\ is_success(Pretest(single_test.run, out.runned))
    THEN ExpectedTest(single_test.expected[1], single_test.run, out.runned)
    ELSE { Returned(ok) }

(***************************************************************************)
(* The inputs the model draws: executables, steps, category sets.          *)
(***************************************************************************)
\* __Intro.get_tester.__single_test(a, b)
IntroSingleTest(a, b) ==
    SingleTest(Run(Some(IntChars(a) \o <<" ">> \o IntChars(b)), ShouldBeZero, None, TRUE),
               Some(IntroChecker(a, b)))

\* Steps of the intro suite: 2 + 7 and 3 + 5.
IntroSteps == { IntroSingleTest(2, 7), IntroSingleTest(3, 5) }

Nine == <<"9", NL>>

\* What a deterministic executable may do with one stdin payload.
SuiteOutcomes ==
    { Completed(0, Nine, <<>>), Completed(1, <<>>, <<>>), TimedOut }

Executable(launches, deterministic, out, any) ==
    [ launches |-> launches, deterministic |-> deterministic, out |-> out, any |-> any ]

\* An executable_path at which nothing can be launched: Popen raises.
MissingExecutable ==
    Executable(FALSE, TRUE, [ i \in { s.run.c_stdin : s \in IntroSteps } |-> TimedOut ], {})

\* Deterministic executables: the stdin payload decides the outcome.
DeterministicExecutables ==
    { Executable(TRUE, TRUE, f, {}) :
        f \in [ { s.run.c_stdin : s \in IntroSteps } -> SuiteOutcomes ] }

\* Any executable: every launch may end in any of these ways.
AnyOutcomes ==
    { Completed(rc, Nine, err) : rc \in { 0, 1 }, err \in { <<>>, <<"e", NL, "e">> } }
        \cup { TimedOut }

AnyExecutable ==
    Executable(TRUE, FALSE, [ i \in { s.run.c_stdin : s \in IntroSteps } |-> TimedOut ],
               AnyOutcomes)

\* Steps of a scenario of some suite: every policy (match-if-present with an
\* expected return code and with none), either stderr requirement, a Checker
\* or none.
ScenarioRuns ==
    { Run(None, p, None, e) : p \in ReturnCodePolicy, e \in BOOLEAN }
        \cup { Run(None, MatchIfPresented, Some(1), e) : e \in BOOLEAN }

ScenarioSteps ==
    { SingleTest(r, x) : r \in ScenarioRuns, x \in { None, Some(AnyChecker) } }

(***************************************************************************)
(* Building the suite, as get_tester does: before the first warm or run.   *)
(***************************************************************************)
Building == pc = "idle" /\ warmed = 0 /\ results = <<>>

\* tester.add(Test(name, categories)): the Test takes the default sequence.
AddTestDefault(categories, maxTests) ==
    /\ Building
    /\ Len(tester) < maxTests
    /\ tester' = Append(tester, Test(categories, DefaultList))
    /\ UNCHANGED <<mainVars, callVars>>
    /\ UNCHANGED <<exe, lists, pc, ti, si, cur, results, trace, warmed, exc, report>>

\* tester.add(Test(name, categories, sequence)) with a list of the caller's own.
AddTestWith(categories, sequence, maxTests) ==
    /\ Building
    /\ Len(tester) < maxTests
    /\ TotalSteps + Len(sequence) <= MaxSteps
    /\ lists' = lists @@ ((Len(tester) + 1) :> sequence)
    /\ tester' = Append(tester, Test(categories, Len(tester) + 1))
    /\ UNCHANGED <<mainVars, callVars>>
    /\ UNCHANGED <<exe, pc, ti, si, cur, results, trace, warmed, exc, report>>

\* test.add(run, expected) on a registered Test.
TestAdd(t, single_test) ==
    /\ Building
    /\ t \in DOMAIN tester
    /\ TotalSteps < MaxSteps
    /\ lists' = AddSingleTest(lists, tester[t], single_test)
    /\ UNCHANGED <<mainVars, callVars>>
    /\ UNCHANGED <<exe, tester, pc, ti, si, cur, results, trace, warmed, exc, report>>

(***************************************************************************)
(* Tester.warm and Test.warm.                                              *)
(***************************************************************************)
Exception(type, during) == [ type |-> type, during |-> during ]

\* Tester.warm is called.
WarmBegin ==
    /\ pc = "idle"
    /\ pc' = "warm"
    /\ ti' = 1
    /\ si' = 1
    /\ UNCHANGED <<mainVars, callVars>>
    /\ UNCHANGED <<exe, lists, tester, cur, results, trace, warmed, exc, report>>

\* What one iteration of the loop of Test.warm does with the outcome of run.run:
\* the outcome is dropped; an exception of the launch is not caught.
WarmIteration(out) ==
    IF out.kind = "oserror" THEN "raise" ELSE "next"

\* A bug: warm takes the step it ran out of the sequence.
WarmStepConsuming ==
    /\ pc = "warm"
    /\ ti <= Len(tester)
    /\ si <= Len(Runs(tester[ti]))
    /\ \E out \in RunRun(Runs(tester[ti])[si].run, exe) :
          IF WarmIteration(out) = "raise"
          THEN /\ pc' = "raised"
               /\ exc' = Some(Exception("OSError", "warm"))
               /\ UNCHANGED lists
          ELSE /\ lists' = [ lists EXCEPT ![tester[ti].sequence] = Tail(@) ]
               /\ UNCHANGED <<pc, exc>>
    /\ UNCHANGED <<mainVars, callVars>>
    /\ UNCHANGED <<exe, tester, ti, si, cur, results, trace, warmed, report>>

\* Test.warm: one iteration, `_ = run.run(executable_path, timeout_factor)`.
WarmStep ==
    /\ pc = "warm"
    /\ ti <= Len(tester)
    /\ si <= Len(Runs(tester[ti]))
    /\ \E out \in RunRun(Runs(tester[ti])[si].run, exe) :
          IF WarmIteration(out) = "raise"
          THEN /\ pc' = "raised"
               /\ exc' = Some(Exception("OSError", "warm"))
               /\ UNCHANGED si
          ELSE /\ si' = si + 1
               /\ UNCHANGED <<pc, exc>>
    /\ UNCHANGED <<mainVars, callVars>>
    /\ UNCHANGED <<exe, lists, tester, ti, cur, results, trace, warmed, report>>

\* Test.warm returns; the loop of Tester.warm goes to the next Test.
WarmNextTest ==
    /\ pc = "warm"
    /\ ti <= Len(tester)
    /\ si > Len(Runs(tester[ti]))
    /\ ti' = ti + 1
    /\ si' = 1
    /\ UNCHANGED <<mainVars, callVars>>
    /\ UNCHANGED <<exe, lists, tester, pc, cur, results, trace, warmed, exc, report>>

\* Tester.warm returns.  warmed counts the completed passes: 0, 1, several (2).
WarmEnd ==
    /\ pc = "warm"
    /\ ti > Len(tester)
    /\ pc' = "idle"
    /\ ti' = 1
    /\ si' = 1
    /\ warmed' = IF warmed < 2 THEN warmed + 1 ELSE warmed
    /\ UNCHANGED <<mainVars, callVars>>
    /\ UNCHANGED <<exe, lists, tester, cur, results, trace, exc, report>>

(***************************************************************************)
(* Tester.run and Test.invoke.                                             *)
(***************************************************************************)
NoTrace == [ test |-> 0, steps |-> <<>>, returned |-> None ]

\* Tester.run, had it gone on filling the Result of the previous call.
RunBeginAccumulating(maxRuns) ==
    /\ pc = "idle"
    /\ Len(results) < maxRuns
    /\ pc' = "run"
    /\ ti' = 1
    /\ si' = 1
    /\ cur' = IF results = <<>> THEN [ NewResult EXCEPT !.warmed = warmed ]
              ELSE [ Last(results) EXCEPT !.warmed = warmed ]
    /\ trace' = NoTrace
    /\ UNCHANGED <<mainVars, callVars>>
    /\ UNCHANGED <<exe, lists, tester, results, warmed, exc, report>>

\* Tester.run is called: result = Result(self.__tests).
RunBegin(maxRuns) ==
    /\ pc = "idle"
    /\ Len(results) < maxRuns
    /\ pc' = "run"
    /\ ti' = 1
    /\ si' = 1
    /\ cur' = [ NewResult EXCEPT !.warmed = warmed ]
    /\ trace' = NoTrace
    /\ UNCHANGED <<mainVars, callVars>>
    /\ UNCHANGED <<exe, lists, tester, results, warmed, exc, report>>

\* The trace of the scenario at ti, with one more step.
Traced(entry, returned) ==
    [ test |-> ti,
      steps |-> (IF si = 1 THEN <<>> ELSE trace.steps) \o <<entry>>,
      returned |-> returned ]

\* Test.__invoke: one iteration of its loop; on a failure __invoke returns the
\* verdict and Tester.run adds it to the Result and goes to the next Test.
InvokeStep ==
    /\ pc = "run"
    /\ ti <= Len(tester)
    /\ si <= Len(Runs(tester[ti]))
    /\ LET single_test == Runs(tester[ti])[si]
       IN  \E out \in RunRun(single_test.run, exe) :
           \E chk \in CheckerAnswers(single_test, out) :
              LET o == InvokeIteration(single_test, out, chk)
                  entry == [ step |-> si, out |-> out, pre |-> o.pre, chk |-> o.chk ]
              IN  \/ /\ o.then = "raise"
                     /\ pc' = "raised"
                     /\ exc' = Some(Exception(o.exception, "run"))
                     /\ trace' = Traced(entry, None)
                     /\ UNCHANGED <<ti, si, cur>>
                  \/ /\ o.then = "return"
                     /\ cur' = ResultAdd(cur, o.verdict)
                     /\ trace' = Traced(entry, Some(o.verdict))
                     /\ ti' = ti + 1
                     /\ si' = 1
                     /\ UNCHANGED <<pc, exc>>
                  \/ /\ o.then = "next"
                     /\ trace' = Traced(entry, None)
                     /\ si' = si + 1
                     /\ UNCHANGED <<pc, exc, ti, cur>>
    /\ UNCHANGED <<mainVars, callVars>>
    /\ UNCHANGED <<exe, lists, tester, results, warmed, report>>

\* Test.__invoke: the loop is over, `return ok()`; Tester.run adds the verdict.
InvokeReturn ==
    /\ pc = "run"
    /\ ti <= Len(tester)
    /\ si > Len(Runs(tester[ti]))
    /\ cur' = ResultAdd(cur, ok)
    /\ trace' = [ test |-> ti,
                  steps |-> IF si = 1 THEN <<>> ELSE trace.steps,
                  returned |-> Some(ok) ]
    /\ ti' = ti + 1
    /\ si' = 1
    /\ UNCHANGED <<mainVars, callVars>>
    /\ UNCHANGED <<exe, lists, tester, pc, results, warmed, exc, report>>

\* A bug: the first failed scenario ends the measured pass.
RunEndAtFailure ==
    /\ pc = "run"
    /\ \/ ti > Len(tester)
       \/ N(cur) > 0 /\ is_failed(Last(cur.verdicts))
    /\ pc' = "idle"
    /\ results' = Append(results, cur)
    /\ ti' = 1
    /\ si' = 1
    /\ cur' = NewResult
    /\ trace' = NoTrace
    /\ UNCHANGED <<mainVars, callVars>>
    /\ UNCHANGED <<exe, lists, tester, warmed, exc, report>>

\* Tester.run returns the Result; its locals are gone.
RunEnd ==
    /\ pc = "run"
    /\ ti > Len(tester)
    /\ pc' = "idle"
    /\ results' = Append(results, cur)
    /\ ti' = 1
    /\ si' = 1
    /\ cur' = NewResult
    /\ trace' = NoTrace
    /\ UNCHANGED <<mainVars, callVars>>
    /\ UNCHANGED <<exe, lists, tester, warmed, exc, report>>

(***************************************************************************)
(* The suite: Tests of the intro suite built and registered, then warm and *)
(* run in any order, on a deterministic or a missing executable.           *)
(***************************************************************************)
IntroCategories == { "a + b" }

\* The engine used as a library: no environment is read, no exit status is set.
NotInMain ==
    /\ env = None
    /\ weights = None
    /\ status = None

\* No single function call is under study and no child process has been spawned.
NoCall ==
    /\ children = <<>>
    /\ args = None
    /\ ret = None

InitWith(executables) ==
    /\ exe \in executables
    /\ lists = (DefaultList :> <<>>)
    /\ tester = <<>>
    /\ pc = "idle"
    /\ ti = 1
    /\ si = 1
    /\ cur = NewResult
    /\ results = <<>>
    /\ trace = NoTrace
    /\ warmed = 0
    /\ exc = None
    /\ report = None
    /\ NotInMain
    /\ NoCall

Init == InitWith(DeterministicExecutables \cup { MissingExecutable })

Build ==
    \/ AddTestDefault({}, MaxTests)
    \/ \E q \in { <<>> } \cup { <<s>> : s \in IntroSteps } :
          AddTestWith(IntroCategories, q, MaxTests)
    \/ \E t \in DOMAIN tester : \E s \in IntroSteps : TestAdd(t, s)

Next ==
    \/ Build
    \/ WarmBegin
    \/ WarmStep
    \/ WarmNextTest
    \/ WarmEnd
    \/ RunBegin(MaxRuns)
    \/ InvokeStep
    \/ InvokeReturn
    \/ RunEnd

Spec == Init /\ [][Next]_vars

(***************************************************************************)
(* One scenario of any suite, run once (Test.invoke) on an executable that *)
(* may end every launch in any way, or on a missing one.                   *)
(***************************************************************************)
InitScenario == InitWith({ AnyExecutable, MissingExecutable })

BuildScenario ==
    \/ AddTestWith({}, <<>>, 1)
    \/ \E t \in DOMAIN tester : \E s \in ScenarioSteps : TestAdd(t, s)

NextScenario ==
    \/ BuildScenario
    \/ RunBegin(1)
    \/ InvokeStep
    \/ InvokeReturn
    \/ RunEnd

SpecScenario == InitScenario /\ [][NextScenario]_vars

(***************************************************************************)
(* Result: scoring and the report.  A ratio or a score is an exact         *)
(* fraction <<numerator, denominator>> in lowest terms.                    *)
(***************************************************************************)
RECURSIVE GCD(_, _)
GCD(a, b) == IF b = 0 THEN a ELSE GCD(b, a % b)

Frac(n, d) == LET g == GCD(n, d) IN <<n \div g, d \div g>>

FracAdd(x, y) == Frac(x[1] * y[2] + y[1] * x[2], x[2] * y[2])

\* zip(self.__tests, self.__verdicts) stops at the shorter of the two.
Zipped(result) ==
    1..(IF Len(tester) < N(result) THEN Len(tester) ELSE N(result))

\* Result.__get_passed_by_category
PassedByCategory(result, category) ==
    Cardinality({ k \in Zipped(result) :
                    is_success(result.verdicts[k]) /\ category \in tester[k].categories })

\* Result.__get_total_by_category
TotalByCategory(result, category) ==
    Cardinality({ k \in Zipped(result) : category \in tester[k].categories })

\* Whether `passed / total` of Result.__get_result_by_category raises.
DivisionByZero(result, category) == TotalByCategory(result, category) = 0

\* Result.__get_result_by_category, where the division is defined.
ResultByCategory(result, category) ==
    Frac(PassedByCategory(result, category), TotalByCategory(result, category))

\* Result.__calculate_total: the sum of result * coefficient over the map's keys.
RECURSIVE CalculateTotal(_, _, _)
CalculateTotal(result, coefficients, keys) ==
    IF keys = {} THEN <<0, 1>>
    ELSE LET category == CHOOSE c \in keys : TRUE
             r == ResultByCategory(result, category)
         IN  FracAdd(Frac(r[1] * coefficients[category], r[2]),
                     CalculateTotal(result, coefficients, keys \ { category }))

\* Verdict.what
What(verdict) ==
    IF verdict.what = None THEN "no additional information" ELSE verdict.what[1]

\* Result.__get_results, had it reported the message of every verdict.
GetResultsKeepsWhat(result) ==
    [ k \in Zipped(result) |->
        [ id |-> k - 1,
          categories |-> tester[k].categories,
          passed |-> is_success(result.verdicts[k]),
          verdict |-> result.verdicts[k].errno,
          what |-> What(result.verdicts[k]),
          runs |-> [ i \in 1..Len(Runs(tester[k])) |->
                       LET r == Runs(tester[k])[i].run
                       IN  [ stdin |-> IF r.c_stdin # None THEN escape(r.c_stdin[1]) ELSE "",
                             expected_returncode |-> r.t_returncode,
                             stderr_should_be_empty |-> r.t_stderr_empty ] ] ] ]

\* Result.__get_results: one record per zipped (test, verdict).
GetResults(result) ==
    [ k \in Zipped(result) |->
        [ id |-> k - 1,
          categories |-> tester[k].categories,
          passed |-> is_success(result.verdicts[k]),
          verdict |-> result.verdicts[k].errno,
          what |-> IF is_failed(result.verdicts[k]) THEN What(result.verdicts[k]) ELSE "",
          runs |-> [ i \in 1..Len(Runs(tester[k])) |->
                       LET r == Runs(tester[k])[i].run
                       IN  [ stdin |-> IF r.c_stdin # None THEN escape(r.c_stdin[1]) ELSE "",
                             expected_returncode |-> r.t_returncode,
                             stderr_should_be_empty |-> r.t_stderr_empty ] ] ] ]

\* Result.export_report(output_path, coefficients): the object it writes.
Report(result, coefficients) ==
    [ result |-> CalculateTotal(result, coefficients, DOMAIN coefficients),
      categories |-> [ c \in DOMAIN coefficients |-> ResultByCategory(result, c) ],
      tests |-> GetResults(result) ]

\* result.export_report(path, coefficients) on a Result that Tester.run returned.
ExportReport(result, coefficients) ==
    /\ pc = "idle"
    /\ report = None
    /\ IF \E c \in DOMAIN coefficients : DivisionByZero(result, c)
       THEN /\ pc' = "raised"
            /\ exc' = Some(Exception("ZeroDivisionError", "export_report"))
            /\ UNCHANGED report
       ELSE /\ report' = Some(Report(result, coefficients))
            /\ UNCHANGED <<pc, exc>>
    /\ UNCHANGED <<mainVars, callVars>>
    /\ UNCHANGED <<exe, lists, tester, ti, si, cur, results, trace, warmed>>

(***************************************************************************)
(* Scoring on its own: a Result as Tester.run leaves it, for any verdicts  *)
(* of up to MaxReportTests scenarios, exported under any coefficient map.  *)
(***************************************************************************)
Categories == { "X", "Y" }

Weights == { 0, 1, 2 }

CoefficientMaps == UNION { [ keys -> Weights ] : keys \in SUBSET Categories }

\* Verdicts of a measured pass: a success, a timeout, the failure of the a+b
\* Checker, and the failure of a Checker that gives the empty message.
ReportVerdicts ==
    { ok, TimeoutVerdict, IntroTest(3, 5, Runned(0, Nine, <<>>)),
      Verdict(ERROR_ASSERTION, Some(""), <<>>, FALSE) }

\* The steps of the k-th scenario of a report: one, two or none.
ReportSteps(k) == SubSeq(<<IntroSingleTest(2, 7), IntroSingleTest(3, 5)>>, 1, k % 3)

\* The Result of running `tests`, whose k-th scenario got verdicts[k].
ResultOf(verdicts) ==
    [ verdicts |-> verdicts,
      passed |-> Cardinality({ k \in DOMAIN verdicts : is_success(verdicts[k]) }),
      warmed |-> 1 ]

InitReport ==
    /\ \E n \in 0..MaxReportTests :
          /\ \E c \in [ 1..n -> SUBSET Categories ] :
                tester = [ k \in 1..n |-> Test(c[k], k) ]
          /\ \E v \in [ 1..n -> ReportVerdicts ] : results = <<ResultOf(v)>>
          /\ lists = [ k \in 0..n |->
                        IF k = DefaultList THEN <<>> ELSE ReportSteps(k) ]
    /\ exe = AnyExecutable
    /\ pc = "idle"
    /\ ti = 1
    /\ si = 1
    /\ cur = NewResult
    /\ trace = NoTrace
    /\ warmed = 1
    /\ exc = None
    /\ report = None
    /\ NotInMain
    /\ NoCall

NextReport ==
    \E m \in CoefficientMaps : ExportReport(results[1], m)

SpecReport == InitReport /\ [][NextReport]_vars

(***************************************************************************)
(* Test.__pretest on its own: one call with any policy, any expected code, *)
(* any actual code and any stderr.                                         *)
(***************************************************************************)
ReturnCodes == { -1, 0, 1, 2 }

PretestRuns ==
    { Run(None, p, t, e) : p \in ReturnCodePolicy,
                           t \in { None } \cup { Some(c) : c \in ReturnCodes },
                           e \in BOOLEAN }

PretestRunned ==
    { Runned(c, Nine, err) : c \in ReturnCodes, err \in { <<>>, <<"e">> } }

\* The engine at rest, as a single function of it is called.
AtRest ==
    /\ exe = AnyExecutable
    /\ lists = (DefaultList :> <<>>)
    /\ tester = <<>>
    /\ pc = "idle"
    /\ ti = 1
    /\ si = 1
    /\ cur = NewResult
    /\ results = <<>>
    /\ trace = NoTrace
    /\ warmed = 0
    /\ exc = None
    /\ report = None
    /\ NotInMain
    /\ children = <<>>
    /\ ret = None

InitPretest ==
    /\ AtRest
    /\ \E run \in PretestRuns, runned \in PretestRunned :
          args = Some([ run |-> run, runned |-> runned ])

PretestCall ==
    /\ ret = None
    /\ ret' = Some(Pretest(args[1].run, args[1].runned))
    /\ UNCHANGED <<engineVars, mainVars, children, args>>

NextPretest == PretestCall

SpecPretest == InitPretest /\ [][NextPretest]_vars

(***************************************************************************)
(* main.py from the return of tester.run on: get_coefficients and          *)
(* export_report when a report path was given, then exit.  The Testsuite   *)
(* has the categories of Categories; the environment is indexed by the     *)
(* category whose variable it holds.                                       *)
(***************************************************************************)
\* What os.getenv returns for a category's variable: None when it is unset.
EnvValues == { None, Some(<<"0">>), Some(<<"2">>), Some(<<"a", "b", "c">>) }

\* Whether float(text) returns; it raises ValueError otherwise.  The texts of
\* EnvValues are integer literals or not numbers at all.
FloatParses(text) == IsIntLiteral(text)

FloatOf(text) == IntOf(text)

\* Testsuite.get_coefficients: `except TypeError` does not catch the
\* ValueError that float raises on a text that is not a number.
GetCoefficients(environ) ==
    [ raised |-> \E c \in Categories :
                    environ[c] # None /\ ~FloatParses(environ[c][1]),
      value |-> [ c \in Categories |->
                    IF environ[c] = None THEN 0
                    ELSE IF FloatParses(environ[c][1]) THEN FloatOf(environ[c][1])
                    ELSE 0 ] ]

InitMain ==
    /\ \E n \in 0..MaxReportTests :
          /\ \E c \in [ 1..n -> SUBSET Categories ] :
                tester = [ k \in 1..n |-> Test(c[k], k) ]
          /\ \E v \in [ 1..n -> { ok, TimeoutVerdict } ] : results = <<ResultOf(v)>>
          /\ lists = [ k \in 0..n |->
                        IF k = DefaultList THEN <<>> ELSE <<IntroSingleTest(2, 7)>> ]
    /\ exe = AnyExecutable
    /\ pc = "idle"
    /\ ti = 1
    /\ si = 1
    /\ cur = NewResult
    /\ trace = NoTrace
    /\ warmed = 1
    /\ exc = None
    /\ report = None
    /\ \E environ \in [ Categories -> EnvValues ], path \in BOOLEAN :
          env = Some([ environ |-> environ, report_output_path |-> path ])
    /\ weights = None
    /\ status = None
    /\ NoCall

\* coefficients = testsuite.get_coefficients()
MainGetCoefficients ==
    /\ pc = "idle"
    /\ status = None
    /\ env[1].report_output_path
    /\ weights = None
    /\ LET got == GetCoefficients(env[1].environ)
       IN  IF got.raised
           THEN /\ pc' = "raised"
                /\ exc' = Some(Exception("ValueError", "get_coefficients"))
                /\ UNCHANGED weights
           ELSE /\ weights' = Some(got.value)
                /\ UNCHANGED <<pc, exc>>
    /\ UNCHANGED <<env, status, callVars>>
    /\ UNCHANGED <<exe, lists, tester, ti, si, cur, results, trace, warmed, report>>

\* result.export_report(str(report_output_path), coefficients)
MainExport ==
    /\ status = None
    /\ weights # None
    /\ ExportReport(Last(results), weights[1])

\* exit(result.exitcode())
MainExit ==
    /\ pc = "idle"
    /\ status = None
    /\ env[1].report_output_path => report # None
    /\ status' = Some(ExitCode(Last(results)))
    /\ pc' = "exited"
    /\ UNCHANGED <<env, weights, callVars>>
    /\ UNCHANGED <<exe, lists, tester, ti, si, cur, results, trace, warmed, exc, report>>

\* An exception that nothing catches leaves __main: the interpreter prints
\* the traceback and the process ends with status 1.
MainUncaught ==
    /\ pc = "raised"
    /\ status = None
    /\ status' = Some(1)
    /\ UNCHANGED <<env, weights, callVars, engineVars>>

NextMain ==
    \/ MainGetCoefficients
    \/ MainExport
    \/ MainExit
    \/ MainUncaught

SpecMain == InitMain /\ [][NextMain]_vars

(***************************************************************************)
(* Run.run step by step: Popen, communicate, and child.kill() when the     *)
(* timeout expired.  The callers (Test.warm, Test.__invoke) call it in     *)
(* sequence from a single thread, so here one call follows another.        *)
(***************************************************************************)
\* A child process: "running" from Popen on, "waited" once communicate has
\* returned (the child exited and was reaped), "killed" once kill() was sent.
Spawned == "running"

Waited(child) == "waited"

\* child.kill(), had the handler of TimeoutExpired not made the call.
KillForgotten(child) == child

Kill(child) == "killed"

InitRunner ==
    /\ exe \in { AnyExecutable, MissingExecutable }
    /\ lists = (DefaultList :> <<>>)
    /\ tester = <<>>
    /\ pc = "idle"
    /\ ti = 1
    /\ si = 1
    /\ cur = NewResult
    /\ results = <<>>
    /\ trace = NoTrace
    /\ warmed = 0
    /\ exc = None
    /\ report = None
    /\ NotInMain
    /\ children = <<>>
    /\ \E run \in ScenarioRuns : args = Some(run)
    /\ ret = None

\* child = subprocess.Popen(cmd, ...)
Popen ==
    /\ pc = "idle"
    /\ Len(children) < MaxChildren
    /\ ret' = None
    /\ IF exe.launches
       THEN /\ children' = Append(children, Spawned)
            /\ pc' = "communicate"
            /\ UNCHANGED exc
       ELSE /\ pc' = "raised"
            /\ exc' = Some(Exception("OSError", "run"))
            /\ UNCHANGED children
    /\ UNCHANGED <<mainVars, args>>
    /\ UNCHANGED <<exe, lists, tester, ti, si, cur, results, trace, warmed, report>>

\* child.communicate(input, timeout): returns, or raises TimeoutExpired.
Communicate ==
    /\ pc = "communicate"
    /\ \E out \in RunRun(args[1], exe) :
          IF out.kind = "runned"
          THEN /\ children' = [ children EXCEPT ![Len(children)] = Waited(@) ]
               /\ ret' = Some(out)
               /\ pc' = "idle"
          ELSE /\ pc' = "expired"
               /\ UNCHANGED <<children, ret>>
    /\ UNCHANGED <<mainVars, args>>
    /\ UNCHANGED <<exe, lists, tester, ti, si, cur, results, trace, warmed, exc, report>>

\* except subprocess.TimeoutExpired: child.kill(); then return None
Expired ==
    /\ pc = "expired"
    /\ children' = [ children EXCEPT ![Len(children)] = Kill(@) ]
    /\ ret' = Some(TimedOut)
    /\ pc' = "idle"
    /\ UNCHANGED <<mainVars, args>>
    /\ UNCHANGED <<exe, lists, tester, ti, si, cur, results, trace, warmed, exc, report>>

NextRunner ==
    \/ Popen
    \/ Communicate
    \/ Expired

SpecRunner == InitRunner /\ [][NextRunner]_vars

(***************************************************************************)
(* The a+b Checker on its own: __Expected.test for the operands of         *)
(* IntroSteps and any stdout of up to MaxStdout characters.                *)
(***************************************************************************)
StdoutAlphabet == { "9", "8", "a", "b", "c", "-", " ", NL, CR }

Stdouts == UNION { [ 1..n -> StdoutAlphabet ] : n \in 0..MaxStdout }

InitIntro ==
    /\ AtRest
    /\ \E s \in IntroSteps, stdout \in Stdouts :
          args = Some([ a |-> s.expected[1].a, b |-> s.expected[1].b, stdout |-> stdout ])

IntroCall ==
    /\ ret = None
    /\ ret' = Some(IntroTest(args[1].a, args[1].b, Runned(0, args[1].stdout, <<>>)))
    /\ UNCHANGED <<engineVars, mainVars, children, args>>

NextIntro == IntroCall

SpecIntro == InitIntro /\ [][NextIntro]_vars

(***************************************************************************)
(* Properties.                                                             *)
(***************************************************************************)
\* The steps configured for the scenario the trace is of.
TracedSteps == Runs(tester[trace.test])

\* The traced step passed: it completed in time, passed __pretest and, when a
\* Checker is attached, passed the Checker.
StepPassed(entry, single_test) ==
    /\ entry.out.kind = "runned"
    /\ entry.pre # None
    /\ is_success(entry.pre[1])
    /\ IF single_test.expected = None
       THEN entry.chk = None
       ELSE /\ entry.chk # None
            /\ ~entry.chk[1].raised
            /\ is_success(entry.chk[1].verdict)

\* The verdict of a traced step that did not pass.
StepVerdict(entry) ==
    IF entry.out.kind = "timeout" THEN TimeoutVerdict
    ELSE IF is_failed(entry.pre[1]) THEN entry.pre[1]
    ELSE entry.chk[1].verdict

\* C1: Test.invoke runs the steps of a scenario left to right and stops at the
\* first step that does not pass: every executed step but the last passed (it
\* completed in time, passed the precondition check and its Checker, if any);
\* the verdict returned is that of the first failing step, and it is Success
\* only when every configured step was executed and passed.
C1_ShortCircuit ==
    trace.test # 0 =>
        /\ Len(trace.steps) <= Len(TracedSteps)
        /\ \A i \in DOMAIN trace.steps : trace.steps[i].step = i
        /\ \A i \in 1..(Len(trace.steps) - 1) : StepPassed(trace.steps[i], TracedSteps[i])
        /\ trace.returned # None =>
              IF /\ trace.steps # <<>>
                 /\ ~StepPassed(Last(trace.steps), TracedSteps[Len(trace.steps)])
              THEN /\ trace.returned[1] = StepVerdict(Last(trace.steps))
                   /\ is_failed(trace.returned[1])
              ELSE /\ Len(trace.steps) = Len(TracedSteps)
                   /\ is_success(trace.returned[1])

\* A scenario of two steps returned after its first step, whose Checker failed.
C1_Witness ==
    /\ trace.test # 0
    /\ trace.returned # None
    /\ Len(TracedSteps) = 2
    /\ Len(trace.steps) = 1
    /\ trace.steps[1].chk # None
    /\ is_failed(trace.returned[1])

\* C2: when the process of an executed step exceeds its deadline, the scenario's
\* verdict is Timeout, neither the precondition check nor the Checker is called
\* for that step, and it is the last step of the scenario that runs.
C2_TimeoutEndsScenario ==
    trace.test # 0 =>
        \A i \in DOMAIN trace.steps :
            trace.steps[i].out.kind = "timeout" =>
                /\ i = Len(trace.steps)
                /\ trace.steps[i].pre = None
                /\ trace.steps[i].chk = None
                /\ trace.returned # None
                /\ trace.returned[1].errno = ERROR_TIMEOUT

\* The first of two steps, one with a Checker, timed out and the scenario returned.
C2_Witness ==
    /\ trace.test # 0
    /\ trace.returned # None
    /\ Len(TracedSteps) = 2
    /\ Len(trace.steps) = 1
    /\ trace.steps[1].out.kind = "timeout"
    /\ TracedSteps[1].expected # None

\* C3: no fault escapes a scenario's execution: Test.invoke always returns a
\* Verdict and no exception (of the launch, of a Checker) reaches Tester.run.
C3_NoFaultEscapes == ~(exc # None /\ exc[1].during = "run")

\* C4: export_report with a coefficient map that names a category no executed
\* scenario carries produces the report (the category's ratio being the
\* fallback 0.0); no division by zero leaves it.
C4_EmptyCategoryFallback == ~(exc # None /\ exc[1].during = "export_report")

\* C5: no failure during warm-up (a timeout, an exit code, stderr, a launch that
\* fails) aborts the warm-up pass: Tester.warm returns normally.
C5_WarmNeverAborts == ~(exc # None /\ exc[1].during = "warm")

\* C6: on a deterministic executable the verdicts of Tester.run are the same
\* whether Tester.warm completed zero, one or several times before the run.
C6_WarmIdempotent ==
    \A i, j \in DOMAIN results :
        results[i].warmed # results[j].warmed =>
            results[i].verdicts = results[j].verdicts

\* Two runs of a suite of two scenarios, one of which fails: one run before any
\* warm-up and one after several.
C6_Witness ==
    \E i, j \in DOMAIN results :
        /\ results[i].warmed = 0
        /\ results[j].warmed = 2
        /\ N(results[j]) = 2
        /\ results[j].passed = 1

\* C7: Test.add on one Test leaves the step sequence of every other Test
\* unchanged, however the Tests were constructed.
C7_AddIsLocal ==
    [][ \A t \in DOMAIN tester : \A s \in IntroSteps :
            TestAdd(t, s) =>
                \A u \in DOMAIN tester \ { t } : Runs(tester[u])' = Runs(tester[u]) ]_vars

\* The verdict of a scenario on the deterministic executable: that of its first
\* step that does not pass, Success when there is none.
RECURSIVE FirstFailure(_, _)
FirstFailure(sequence, i) ==
    IF i > Len(sequence) THEN ok
    ELSE LET out == CHOOSE o \in RunRun(sequence[i].run, exe) : TRUE
             chk == CHOOSE c \in CheckerAnswers(sequence[i], out) : TRUE
             o == InvokeIteration(sequence[i], out, chk)
         IN  IF o.then = "return" THEN o.verdict ELSE FirstFailure(sequence, i + 1)

\* C8: a Result that Tester.run returned holds one verdict per registered
\* scenario, the k-th being the verdict of the k-th registered scenario: every
\* scenario was executed whatever the verdicts of those before it.
C8_OneVerdictPerScenario ==
    \A r \in DOMAIN results :
        /\ N(results[r]) = Len(tester)
        /\ \A k \in DOMAIN tester :
              results[r].verdicts[k] = FirstFailure(Runs(tester[k]), 1)

\* A returned Result of two scenarios: the first failed, the second passed.
C8_Witness ==
    \E r \in DOMAIN results :
        /\ N(results[r]) = 2
        /\ is_failed(results[r].verdicts[1])
        /\ is_success(results[r].verdicts[2])

\* The last executed step of a returned scenario passed the precondition check
\* and its Checker was called.
CheckerDecided ==
    /\ trace.test # 0
    /\ trace.returned # None
    /\ trace.steps # <<>>
    /\ Last(trace.steps).pre # None
    /\ is_success(Last(trace.steps).pre[1])
    /\ Last(trace.steps).chk # None

\* C9 as stated: the scenario's verdict is exactly the verdict its Checker
\* returned on the last executed step.
C9_ExactlyCheckerVerdict ==
    CheckerDecided => trace.returned[1] = Last(trace.steps).chk[1].verdict

\* C9: when the last executed step passed the precondition check and has a
\* Checker, the scenario's verdict has the tag of the verdict the Checker
\* returned on that step, and is that very verdict when the Checker failed.
C9_CheckerDecides ==
    CheckerDecided =>
        /\ trace.returned[1].errno = Last(trace.steps).chk[1].verdict.errno
        /\ is_failed(Last(trace.steps).chk[1].verdict) =>
              trace.returned[1] = Last(trace.steps).chk[1].verdict

\* The Checker of the second of two steps failed, with a hint.
C9_Witness ==
    /\ CheckerDecided
    /\ Len(trace.steps) = 2
    /\ trace.returned[1].errno = ERROR_TYPE_ERROR
    /\ trace.returned[1].hint

\* C10: a step that completed in time, whose spec requires empty stderr and
\* whose stderr is not empty, gives the scenario the verdict StderrNotEmpty
\* carrying the stderr text, whatever its stdout, exit code, exit-code policy or
\* Checker; the Checker is not called and no later step runs.
C10_StderrFirst ==
    trace.test # 0 =>
        \A i \in DOMAIN trace.steps :
            ( /\ trace.steps[i].out.kind = "runned"
              /\ TracedSteps[i].run.t_stderr_empty
              /\ trace.steps[i].out.runned.stderr # <<>> ) =>
                /\ i = Len(trace.steps)
                /\ trace.steps[i].chk = None
                /\ trace.returned # None
                /\ trace.returned[1].errno = ERROR_STDERR_IS_NOT_EMPTY
                /\ trace.returned[1].extended_what
                      = splitlines(trace.steps[i].out.runned.stderr)

\* Non-empty stderr on a step that must exit with 0, exited with 1 and has a
\* Checker.
C10_Witness ==
    /\ trace.test # 0
    /\ trace.returned # None
    /\ trace.steps # <<>>
    /\ Last(trace.steps).out.kind = "runned"
    /\ Last(trace.steps).out.runned.stderr # <<>>
    /\ Last(trace.steps).out.runned.returncode = 1
    /\ TracedSteps[Len(trace.steps)].run.t_stderr_empty
    /\ TracedSteps[Len(trace.steps)].run.policy = ShouldBeZero
    /\ TracedSteps[Len(trace.steps)].expected # None
    /\ trace.returned[1].errno = ERROR_STDERR_IS_NOT_EMPTY

\* The stderr check of __pretest lets the step through.
StderrCheckPasses(run, runned) == run.t_stderr_empty <=> (runned.stderr = <<>>)

\* The actual code is wrong for the policy of the step.
WrongReturnCode(run, runned) ==
    \/ run.policy = ShouldBeZero /\ runned.returncode # 0
    \/ run.policy = ShouldNotBeZero /\ runned.returncode = 0
    \/ /\ run.policy = MatchIfPresented
       /\ run.t_returncode # None
       /\ run.t_returncode[1] # runned.returncode

\* C11: once the stderr check has passed, Test.__pretest answers
\* ERROR_RETURNCODE exactly when the policy is ShouldBeZero and the actual code
\* is not 0, or the policy is ShouldNotBeZero and the actual code is 0, or the
\* policy is MatchIfPresented, an expected code was supplied and it differs
\* from the actual one; in every other case it answers Success.  So an
\* expected code supplied under ShouldBeZero or ShouldNotBeZero is never
\* compared.
C11_ReturncodePolicy ==
    (ret # None /\ StderrCheckPasses(args[1].run, args[1].runned)) =>
        IF WrongReturnCode(args[1].run, args[1].runned)
        THEN ret[1].errno = ERROR_RETURNCODE
        ELSE ret[1] = ok

\* ShouldBeZero with the expected code 1 supplied and the actual code 1: the
\* codes agree, the verdict is ERROR_RETURNCODE all the same.
C11_Witness ==
    /\ ret # None
    /\ args[1].run.policy = ShouldBeZero
    /\ args[1].run.t_returncode = Some(1)
    /\ args[1].runned.returncode = 1
    /\ StderrCheckPasses(args[1].run, args[1].runned)
    /\ ret[1].errno = ERROR_RETURNCODE

\* passed / total over the scenarios that carry the category; 0 when none does.
Ratio(result, category) ==
    LET carrying == { k \in 1..Len(tester) : category \in tester[k].categories }
        passing == { k \in carrying : result.verdicts[k].errno = ERROR_SUCCESS }
    IN  IF carrying = {} THEN <<0, 1>>
        ELSE Frac(Cardinality(passing), Cardinality(carrying))

\* The sum of ratio times weight over the keys of a coefficient map.
RECURSIVE WeightedSum(_, _, _)
WeightedSum(result, m, keys) ==
    IF keys = {} THEN <<0, 1>>
    ELSE LET c == CHOOSE x \in keys : TRUE
         IN  FracAdd(Frac(Ratio(result, c)[1] * m[c], Ratio(result, c)[2]),
                     WeightedSum(result, m, keys \ { c }))

\* C12: the overall score of an exported report is the sum, over exactly the
\* keys of the coefficient map, of the category's ratio times its weight; the
\* ratio of a category is passed / total over the scenarios that carry it, and
\* a key that no scenario carries adds nothing.  So with three scenarios tagged
\* X that pass, pass and fail, the map {X: 1, Y: 0} gives the score 2/3.
C12_WeightedScore ==
    [][ \A m \in CoefficientMaps :
          ExportReport(results[1], m) =>
              /\ report' # None
              /\ report'[1].result = WeightedSum(results[1], m, DOMAIN m) ]_vars

\* Every verdict of the Result is a Success.
AllPassed(result) == \A k \in DOMAIN result.verdicts : result.verdicts[k].errno = ERROR_SUCCESS

\* C13: the exit status of the process is 0 exactly when every scenario of
\* the measured pass got Success, and 1 otherwise, whatever the coefficients
\* are and whether or not a report is exported.
C13_ExitCodeFromVerdicts ==
    status # None => status[1] = (IF AllPassed(Last(results)) THEN 0 ELSE 1)

\* The child was waited for or killed.
Released(child) == child \in { "waited", "killed" }

\* C14: at most one child process is running at any time, and whenever
\* Run.run is not executing (it has returned, or raised) every child it ever
\* spawned has been released, that is waited for or killed, on the timeout
\* path too; so the next call spawns its child only after the previous one
\* was resolved.
C14_ChildReleased ==
    /\ Cardinality({ i \in DOMAIN children : ~Released(children[i]) }) <= 1
    /\ pc \in { "idle", "raised" } => \A i \in DOMAIN children : Released(children[i])

\* Two calls have returned: the first through the timeout path.
C14_Witness ==
    /\ pc = "idle"
    /\ Len(children) >= 2
    /\ children[1] = "killed"
    /\ children[2] = "waited"
    /\ ret # None

\* C15: every Verdict that reaches Test.__print_verdict has exactly one
\* extended line when its hint flag is set, so the assertion of
\* __print_verdict never fails, whatever Verdict a Checker returns.
C15_HintHasOneLine ==
    /\ \A i \in DOMAIN trace.steps :
          LET entry == trace.steps[i]
          IN  (entry.chk # None /\ ~entry.chk[1].raised
                                /\ is_failed(entry.chk[1].verdict))
                  => (entry.chk[1].verdict.hint
                          => Len(entry.chk[1].verdict.extended_what) = 1)
    /\ ~(exc # None /\ exc[1].type = "AssertionError")

\* The kind of each verdict of a Result, in order.
Tags(result) == [ k \in DOMAIN result.verdicts |-> result.verdicts[k].errno ]

\* C16: two calls of Tester.run on the same Tester and a deterministic
\* executable return Results with the same sequence of verdict kinds, and each
\* of them holds exactly one verdict per registered scenario: the Result of
\* the second call starts empty, it does not go on from the first one's.
C16_RunTwice ==
    \A i, j \in DOMAIN results :
        /\ Tags(results[i]) = Tags(results[j])
        /\ Len(Tags(results[j])) = Len(tester)

\* The second call has returned; its Result of two scenarios has a Success
\* followed by a failure.
C16_Witness ==
    /\ Len(results) = 2
    /\ Len(Tags(results[1])) = 2
    /\ Len(Tags(results[2])) = 2
    /\ Tags(results[2])[1] = ERROR_SUCCESS
    /\ Tags(results[2])[2] # ERROR_SUCCESS

\* The text has a character that is not a digit, or is empty.
NotANumber(text) == text = <<>> \/ \E i \in 1..Len(text) : text[i] \notin Digits

\* C17: Testsuite.get_coefficients never raises and returns a mapping with one
\* entry per configured category, whose weight is 0 whenever the category's
\* environment variable is unset or holds a text that is not a number.
C17_UnparsableIsZero ==
    /\ ~(exc # None /\ exc[1].during = "get_coefficients")
    /\ weights # None =>
          /\ DOMAIN weights[1] = Categories
          /\ \A c \in Categories :
                (env[1].environ[c] = None \/ NotANumber(env[1].environ[c][1]))
                    => weights[1][c] = 0

\* stdout has no newline at its end, not exactly one line, or a line with
\* a space in front or at the end.
Malformed(stdout) ==
    \/ stdout = <<>>
    \/ Last(stdout) # NL
    \/ Len(splitlines(stdout)) # 1
    \/ splitlines(stdout)[1] # <<>>
          /\ (Head(splitlines(stdout)[1]) = " " \/ Last(splitlines(stdout)[1]) = " ")

\* The line is an optional minus sign followed by digits.
IsInteger(line) ==
    LET d == IF line # <<>> /\ Head(line) = "-" THEN Tail(line) ELSE line
    IN  d # <<>> /\ \A i \in DOMAIN d : d[i] \in { "8", "9" }

\* C18: the a+b Checker classifies stdout in this order: no newline at the
\* end, a number of lines other than one, or a line with leading or trailing
\* whitespace gives InvalidFormat; otherwise a line that is not an integer
\* gives TypeError; otherwise an integer other than a + b gives
\* AssertionFailed with the message "a + b = <a+b>, (actual: <n>)" and one
\* hint line; otherwise Success.  For a = 2, b = 7: "9\n" is a Success, "9 "
\* an InvalidFormat, "abc\n" a TypeError and "8\n" an AssertionFailed.
\* (No integer of StdoutAlphabet has a sign +, an underscore or a leading
\* zero, so an integer line is its own decimal rendering.)
C18_Classification ==
    ret # None =>
        LET a == args[1].a
            b == args[1].b
            stdout == args[1].stdout
            line == splitlines(stdout)[1]
            verdict == ret[1]
        IN  /\ IF Malformed(stdout) THEN verdict.errno = ERROR_INVALID_FORMAT
               ELSE IF ~IsInteger(line) THEN verdict.errno = ERROR_TYPE_ERROR
               ELSE IF Text(line) # IntStr(a + b)
               THEN /\ verdict.errno = ERROR_ASSERTION
                    /\ verdict.what = Some(IntStr(a) \o " + " \o IntStr(b) \o " = "
                                               \o IntStr(a + b) \o ", (actual: "
                                               \o Text(line) \o ")")
                    /\ verdict.hint
                    /\ Len(verdict.extended_what) = 1
               ELSE verdict = ok
            /\ (a = 2 /\ b = 7) =>
                  /\ stdout = <<"9", NL>> => verdict.errno = ERROR_SUCCESS
                  /\ stdout = <<"9", " ">> => verdict.errno = ERROR_INVALID_FORMAT
                  /\ stdout = <<"a", "b", "c", NL>> => verdict.errno = ERROR_TYPE_ERROR
                  /\ stdout = <<"8", NL>> =>
                        /\ verdict.errno = ERROR_ASSERTION
                        /\ verdict.what = Some("2 + 7 = 9, (actual: 8)")

\* The Checker of 2 + 7 was given "8\n" and answered AssertionFailed.
C18_Witness ==
    /\ ret # None
    /\ args[1].a = 2
    /\ args[1].b = 7
    /\ args[1].stdout = <<"8", NL>>
    /\ ret[1].errno = ERROR_ASSERTION

\* The records of an exported report, but for their `what`: one per
\* registered scenario, in registration order, `id` being the index; `passed`
\* holds exactly when `verdict` is the Success label; `runs` has one entry per
\* step of the scenario; every value of `categories` is a ratio in [0, 1].
ReportShape ==
    report # None =>
        LET tests == report[1].tests
            categories == report[1].categories
        IN  /\ DOMAIN tests = 1..Len(tester)
            /\ \A k \in DOMAIN tests :
                  /\ tests[k].id = k - 1
                  /\ tests[k].categories = tester[k].categories
                  /\ tests[k].verdict = results[1].verdicts[k].errno
                  /\ tests[k].passed <=> (tests[k].verdict = ERROR_SUCCESS)
                  /\ Len(tests[k].runs) = Len(lists[tester[k].sequence])
            /\ \A c \in DOMAIN categories :
                  /\ categories[c][2] > 0
                  /\ 0 <= categories[c][1]
                  /\ categories[c][1] <= categories[c][2]

\* C19 as stated: the report has that shape, and the `what` of a record is the
\* empty string exactly when its `passed` is true.
C19_WhatEmptyIffPassed ==
    /\ ReportShape
    /\ report # None =>
          \A k \in DOMAIN report[1].tests :
              (report[1].tests[k].what = "") <=> report[1].tests[k].passed

\* C19: the report has that shape; the `what` of a record is the empty string
\* whenever its `passed` is true, and the message of the scenario's verdict
\* otherwise ("no additional information" when the verdict has none), which is
\* empty only when a Checker gave the empty message.
C19_ReportRecords ==
    /\ ReportShape
    /\ report # None =>
          \A k \in DOMAIN report[1].tests :
              LET verdict == results[1].verdicts[k]
              IN  report[1].tests[k].what =
                      IF report[1].tests[k].passed THEN ""
                      ELSE IF verdict.what = None THEN "no additional information"
                      ELSE verdict.what[1]

\* A report of three scenarios: the first passed, the second failed with a
\* message, the third failed with the empty message.
C19_Witness ==
    /\ report # None
    /\ Len(tester) = 3
    /\ report[1].tests[1].passed /\ report[1].tests[1].what = ""
    /\ ~report[1].tests[2].passed /\ report[1].tests[2].what # ""
    /\ ~report[1].tests[3].passed /\ report[1].tests[3].what = ""
    /\ Len(report[1].tests[2].runs) = 2

\* The number of Success verdicts of a Result.
Successes(result) ==
    Cardinality({ k \in DOMAIN result.verdicts : result.verdicts[k].errno = ERROR_SUCCESS })

\* C20: after any sequence of Result.add calls, passed() is the number of
\* Success verdicts of the verdict list and 0 <= passed() <= n(); a call of add
\* appends one verdict and leaves the earlier ones where they were.
C20_PassedCounts ==
    /\ [](\A r \in { cur } \cup { results[i] : i \in DOMAIN results } :
             /\ r.passed = Successes(r)
             /\ 0 <= r.passed
             /\ r.passed <= N(r))
    /\ [][ (pc = "run" /\ pc' = "run") =>
              /\ N(cur') \in { N(cur), N(cur) + 1 }
              /\ SubSeq(cur'.verdicts, 1, N(cur)) = cur.verdicts ]_vars

\* Result.add was called twice on the Result being filled: once with a Success
\* and once with a failure.
C20_Witness ==
    /\ pc = "run"
    /\ N(cur) = 2
    /\ cur.passed = 1

====
